---- MODULE Spec2Model ----
(***************************************************************************)
(* Model of the safe wrapper AgcFile around the foreign AGC archive API    *)
(* (src/src/lib.rs).  Text is a sequence of bytes.  An optional value or   *)
(* a pointer is a sequence of length at most one: <<>> is None / NULL,     *)
(* <<x>> is Some(x) / a non-null pointer to x.                             *)
(***************************************************************************)
EXTENDS Integers, Sequences, FiniteSets, TLC

VARIABLES
    engine,         \* conventions of the linked foreign engine, fixed per run
    hstate,         \* per AgcFile slot: "unborn", "open" (value alive), "closed" (dropped)
    closeCalls,     \* per slot: number of agc_close calls issued on its handle
    borrows,        \* per slot: threads inside a query on the shared AgcFile
    outstanding,    \* foreign string arrays returned and not yet destroyed
    leakedPaths,    \* path buffers handed over with into_raw and never reclaimed
    leakedStrings,  \* reference-sample strings returned and never destroyed
    last            \* the last wrapper operation: arguments, foreign calls, result

vars == <<engine, hstate, closeCalls, borrows, outstanding, leakedPaths,
          leakedStrings, last>>

----------------------------------------------------------------------------
(* Bounds of the model *)

MaxHandles == 2     \* AgcFile values a run may create
MaxOpens == 2       \* open calls that reach the foreign layer in a run
MaxRefCalls == 1    \* successful reference_sample calls in a run
MaxPos == 2         \* start and end offsets range over 0..MaxPos
MaxThreads == 2     \* threads inside a query on one AgcFile at a time

Handles == 1..MaxHandles

(* c_int is a 32-bit signed integer *)
I32Max == 2147483647

----------------------------------------------------------------------------
(* Results *)

Ok(v) == [tag |-> "Ok", val |-> v, err |-> ""]
Err(e) == [tag |-> "Err", val |-> <<>>, err |-> e]
Panic(e) == [tag |-> "Panic", val |-> <<>>, err |-> e]

----------------------------------------------------------------------------
(* Text conversions *)

\* CString::new fails on an interior 0 byte
HasNul(s) == \E i \in 1..Len(s) : s[i] = 0

\* A CString::new that cuts the text at its first 0 byte instead of failing
RECURSIVE UpToNul(_)
UpToNul(s) == IF s = <<>> \/ Head(s) = 0 THEN <<>> ELSE <<Head(s)>> \o UpToNul(Tail(s))

CStringNew_Truncating(s) == <<UpToNul(s)>>

\* CString::new(s).ok(): None on an interior 0 byte, else the same bytes
CStringNew(s) == IF HasNul(s) THEN <<>> ELSE <<s>>

\* sample.map(|s| CString::new(s).ok()).flatten()
OptCString(sample) == IF sample = <<>> THEN <<>> ELSE CStringNew(sample[1])

\* Over the byte alphabet of the model (ASCII and 255) a byte string is
\* valid UTF-8 exactly when every byte is below 128.
IsUtf8(b) == \A i \in 1..Len(b) : b[i] < 128

\* CStr::to_string_lossy: every invalid byte becomes U+FFFD (EF BF BD)
RECURSIVE ToStringLossy(_)
ToStringLossy(b) ==
    IF b = <<>> THEN <<>>
    ELSE (IF Head(b) < 128 THEN <<Head(b)>> ELSE <<239, 191, 189>>)
         \o ToStringLossy(Tail(b))

\* String::from_utf8: the same bytes, or an error
FromUtf8(b) == IF IsUtf8(b) THEN Ok(b) ELSE Err("utf8")

----------------------------------------------------------------------------
(* The archive behind the foreign engine.  Names are byte strings chosen by *)
(* whoever built the archive; <<255>> is a name that is not valid UTF-8.    *)

ArchivePath == <<65>>

ArchiveSamples == << <<65>>, <<255>> >>

ArchiveCtgs(s) ==
    IF s = <<65>>
    THEN << [name |-> <<67>>, seq |-> <<65, 67, 65>>],
            [name |-> <<65>>, seq |-> <<67, 255>>] >>
    ELSE IF s = <<255>>
    THEN << [name |-> <<67>>, seq |-> <<67>>] >>
    ELSE << >>

IsSample(s) == \E i \in 1..Len(ArchiveSamples) : ArchiveSamples[i] = s

\* The contigs a (sample pointer, name) pair resolves to.  With a NULL
\* sample the name is looked up in every sample.
CtgMatches(sample_ptr, name) ==
    LET In(s) == {ArchiveCtgs(s)[i].seq : i \in
                    {j \in 1..Len(ArchiveCtgs(s)) : ArchiveCtgs(s)[j].name = name}}
    IN  IF sample_ptr = <<>>
        THEN UNION {In(ArchiveSamples[i]) : i \in 1..Len(ArchiveSamples)}
        ELSE In(sample_ptr[1])

\* Some(sequence) when the pair names exactly one contig, else None
FindCtg(sample_ptr, name) ==
    LET m == CtgMatches(sample_ptr, name)
    IN  IF Cardinality(m) = 1 THEN <<CHOOSE q \in m : TRUE>> ELSE <<>>

Min(a, b) == IF a < b THEN a ELSE b

----------------------------------------------------------------------------
(* The foreign functions, as declared in the extern block *)

\* agc_open: a non-null handle (TRUE) or NULL for error (FALSE)
agc_open(fn_, prefetching, fault) == fn_ = ArchivePath /\ ~fault

\* agc_get_ctg_len: contig length, or <0 for errors
agc_get_ctg_len(sample_ptr, name) ==
    LET c == FindCtg(sample_ptr, name)
    IN  IF c = <<>> THEN -1 ELSE Len(c[1])

\* agc_get_ctg_seq: writes the bases of the range into buf and returns a
\* length, or <0 for errors.  The engine checks the range itself.  Whether
\* `end` is inclusive, and whether the returned length is the number of
\* bytes written or the contig length, is the engine's convention.
agc_get_ctg_seq(sample_ptr, name, start, end) ==
    LET c == FindCtg(sample_ptr, name)
    IN  IF c = <<>> \/ start < 0 \/ end < start
        THEN [ret |-> -1, written |-> <<>>]
        ELSE LET seq == c[1]
                 last_ == Min(IF engine.inclusive /\ end < Len(seq)
                              THEN end + 1 ELSE end, Len(seq))
                 w == IF start >= Len(seq) THEN <<>>
                      ELSE SubSeq(seq, start + 1, last_)
             IN  [ret |-> IF engine.ret_ctg_len THEN Len(seq) ELSE Len(w),
                  written |-> w]

\* agc_n_sample: the number of samples
agc_n_sample == Len(ArchiveSamples)

\* What agc_n_ctg may return for a sample the archive does not hold: its
\* declaration names no error return, its sibling agc_get_ctg_len returns
\* a negative code
MissingCounts == {0, -1}

\* agc_n_ctg: the number of contigs in sample; missing is the engine's
\* answer for a sample the archive does not hold
agc_n_ctg(sample, missing) ==
    IF IsSample(sample) THEN Len(ArchiveCtgs(sample)) ELSE missing

\* agc_reference_sample: the first sample's name, or NULL
agc_reference_sample(fault) == IF fault THEN <<>> ELSE <<ArchiveSamples[1]>>

\* A foreign array of strings in which the entries at `nulls` are NULL
StrArray(names, nulls) ==
    [i \in 1..Len(names) |-> IF i \in nulls THEN <<>> ELSE <<names[i]>>]

\* agc_list_sample: array of strings and its length, or NULL
agc_list_sample(fault, nulls) ==
    IF fault THEN <<>> ELSE <<StrArray(ArchiveSamples, nulls)>>

\* agc_list_ctg: array of the sample's contig names and its length, or NULL
agc_list_ctg(sample_ptr, fault, nulls) ==
    IF fault \/ sample_ptr = <<>> \/ ~IsSample(sample_ptr[1])
    THEN <<>>
    ELSE <<StrArray([i \in 1..Len(ArchiveCtgs(sample_ptr[1])) |->
                        ArchiveCtgs(sample_ptr[1])[i].name], nulls)>>

----------------------------------------------------------------------------
(* What one wrapper call did: the foreign calls it issued in order, the    *)
(* sample pointer, return value and array or string it exchanged with them, *)
(* the bytes the engine wrote into its buffer and the index of the buffer's *)
(* last byte (its size minus one),                                          *)
(* the path buffers it gave away with into_raw, and its result.            *)

Out == [calls |-> <<>>, sptr |-> <<>>, fret |-> 0, arr |-> <<>>, written |-> <<>>,
        buf_top |-> -1, raw |-> 0, result |-> Err("")]

Count(calls, f) == Cardinality({i \in 1..Len(calls) : calls[i] = f})

\* c_sample.as_ref().map(|s| s.as_ptr()).unwrap_or(ptr::null())
SamplePtr(sample) == OptCString(sample)

\* An open that wraps whatever agc_open returned, NULL included
open_Unchecked(filename, prefetching, fault) ==
    LET c_filename == CStringNew(filename)
    IN  IF c_filename = <<>> THEN [Out EXCEPT !.result = Err("nul")]
        ELSE [Out EXCEPT !.calls = <<"agc_open">>,
                         !.raw = 1,
                         !.fret = IF agc_open(c_filename[1], 0, fault) THEN 1 ELSE 0,
                         !.result = Ok(<<>>)]

\* AgcFile::open
open(filename, prefetching, fault) ==
    LET c_filename == CStringNew(filename)
        prefetch_flag == IF prefetching THEN 1 ELSE 0
    IN  IF c_filename = <<>> THEN [Out EXCEPT !.result = Err("nul")]
        ELSE LET handle == agc_open(c_filename[1], prefetch_flag, fault)
             IN  [Out EXCEPT !.calls = <<"agc_open">>,
                             !.raw = 1,
                             !.fret = IF handle THEN 1 ELSE 0,
                             !.result = IF ~handle THEN Err("open")
                                        ELSE Ok(<<>>)]

\* A drop that closes the handle twice
drop_Twice == <<"agc_close", "agc_close">>

\* Drop for AgcFile: the foreign calls issued when the value is dropped
drop == <<"agc_close">>

\* A get_ctg_len that passes the foreign value on without the sign test
get_ctg_len_Unchecked(sample, name) ==
    LET c_name == CStringNew(name)
    IN  IF c_name = <<>> THEN [Out EXCEPT !.result = Err("nul")]
        ELSE [Out EXCEPT !.calls = <<"agc_get_ctg_len">>,
                         !.sptr = SamplePtr(sample),
                         !.fret = agc_get_ctg_len(SamplePtr(sample), c_name[1]),
                         !.result = Ok(agc_get_ctg_len(SamplePtr(sample), c_name[1]))]

\* AgcFile::get_ctg_len
get_ctg_len(sample, name) ==
    LET c_name == CStringNew(name)
        sample_ptr == SamplePtr(sample)
    IN  IF c_name = <<>> THEN [Out EXCEPT !.result = Err("nul")]
        ELSE LET len == agc_get_ctg_len(sample_ptr, c_name[1])
             IN  [Out EXCEPT !.calls = <<"agc_get_ctg_len">>,
                             !.sptr = sample_ptr,
                             !.fret = len,
                             !.result = IF len < 0 THEN Err("len") ELSE Ok(len)]

\* (end - start) as usize + 1, and vec![0u8; buf_size].  `checks` says
\* whether the build panics on arithmetic overflow (debug) or wraps
\* (release).  The result is the index of the buffer's last byte.
BufSize(start, end, checks) ==
    LET over == start < 0 /\ end > I32Max + start
        under == start > 0 /\ end < (-I32Max - 1) + start
        d == IF over THEN (((end - I32Max) - 1) - start) - I32Max - 1
             ELSE IF under THEN (((end + I32Max) + 1) - start) + I32Max + 1
             ELSE end - start
    IN  IF (over \/ under) /\ checks
        THEN [tag |-> "panic", top |-> -1, err |-> "subtract with overflow"]
        ELSE IF d >= 0 THEN [tag |-> "ok", top |-> d, err |-> ""]
        ELSE IF d = -1
        THEN (IF checks THEN [tag |-> "panic", top |-> -1, err |-> "add with overflow"]
              ELSE [tag |-> "ok", top |-> -1, err |-> ""])
        ELSE [tag |-> "panic", top |-> -1, err |-> "capacity overflow"]

\* buffer[..n]: the bytes written followed by the zero fill
RECURSIVE Zeros(_)
Zeros(n) == IF n <= 0 THEN <<>> ELSE <<0>> \o Zeros(n - 1)

Prefix(written, n) ==
    IF n <= Len(written) THEN SubSeq(written, 1, n)
    ELSE written \o Zeros(n - Len(written))

\* A tail of get_ctg_seq without the test for a negative return value
SeqResult_NoSignTest(result, written, buf_top) ==
    IF result - 1 > buf_top THEN Panic("slice index out of range")
    ELSE FromUtf8(Prefix(written, result))

\* A tail of get_ctg_seq that returns the whole buffer, not its first
\* `result` bytes
SeqResult_WholeBuffer(result, written, buf_top) ==
    IF result < 0 THEN Err("seq")
    ELSE FromUtf8(Prefix(written, buf_top + 1))

\* The tail of AgcFile::get_ctg_seq: what it makes of the foreign return
\* value and the buffer
SeqResult(result, written, buf_top) ==
    IF result < 0 THEN Err("seq")
    ELSE IF result - 1 > buf_top THEN Panic("slice index out of range")
    ELSE FromUtf8(Prefix(written, result))

\* AgcFile::get_ctg_seq
get_ctg_seq(sample, name, start, end, checks) ==
    LET c_name == CStringNew(name)
        sample_ptr == SamplePtr(sample)
        buf == BufSize(start, end, checks)
    IN  IF c_name = <<>> THEN [Out EXCEPT !.result = Err("nul")]
        ELSE IF buf.tag = "panic" THEN [Out EXCEPT !.result = Panic(buf.err)]
        ELSE LET r == agc_get_ctg_seq(sample_ptr, c_name[1], start, end)
             IN  [Out EXCEPT !.calls = <<"agc_get_ctg_seq">>,
                             !.sptr = sample_ptr,
                             !.fret = r.ret,
                             !.written = r.written,
                             !.buf_top = buf.top,
                             !.result = SeqResult(r.ret, r.written, buf.top)]

\* AgcFile::n_sample
n_sample ==
    [Out EXCEPT !.calls = <<"agc_n_sample">>,
                !.fret = agc_n_sample,
                !.result = Ok(agc_n_sample)]

\* AgcFile::n_ctg
n_ctg(sample, missing) ==
    LET c_sample == CStringNew(sample)
    IN  IF c_sample = <<>> THEN [Out EXCEPT !.result = Err("nul")]
        ELSE [Out EXCEPT !.calls = <<"agc_n_ctg">>,
                         !.sptr = c_sample,
                         !.fret = agc_n_ctg(c_sample[1], missing),
                         !.result = Ok(agc_n_ctg(c_sample[1], missing))]

\* AgcFile::reference_sample
reference_sample(fault) ==
    LET ptr == agc_reference_sample(fault)
    IN  [Out EXCEPT !.calls = <<"agc_reference_sample">>,
                    !.arr = ptr,
                    !.result = IF ptr = <<>> THEN Err("ref")
                               ELSE Ok(ToStringLossy(ptr[1]))]

\* A loop that builds the result back to front
RECURSIVE CopyEntries_Reversed(_)
CopyEntries_Reversed(list) ==
    IF list = <<>> THEN <<>>
    ELSE CopyEntries_Reversed(Tail(list))
         \o (IF Head(list) # <<>> THEN <<ToStringLossy(Head(list)[1])>> ELSE <<>>)

\* A loop that pushes an empty string for a NULL entry instead of skipping it
RECURSIVE CopyEntries_KeepNull(_)
CopyEntries_KeepNull(list) ==
    IF list = <<>> THEN <<>>
    ELSE (IF Head(list) # <<>> THEN <<ToStringLossy(Head(list)[1])>> ELSE << <<>> >>)
         \o CopyEntries_KeepNull(Tail(list))

\* The loop of list_sample and list_ctg: for i in 0..n, copy the entry
\* unless it is NULL
RECURSIVE CopyEntries(_)
CopyEntries(list) ==
    IF list = <<>> THEN <<>>
    ELSE (IF Head(list) # <<>> THEN <<ToStringLossy(Head(list)[1])>> ELSE <<>>)
         \o CopyEntries(Tail(list))

\* A list_sample / list_ctg that returns without agc_list_destroy
ListResult_NoDestroy(f, list) ==
    IF list = <<>>
    THEN [Out EXCEPT !.calls = <<f>>, !.result = Err("list")]
    ELSE [Out EXCEPT !.calls = <<f>>,
                     !.fret = Len(list[1]),
                     !.arr = list,
                     !.result = Ok(CopyEntries(list[1]))]

\* What list_sample and list_ctg do with the pointer the enumeration call
\* `f` returned
ListResult(f, list) ==
    IF list = <<>>
    THEN [Out EXCEPT !.calls = <<f>>, !.result = Err("list")]
    ELSE [Out EXCEPT !.calls = <<f, "agc_list_destroy">>,
                     !.fret = Len(list[1]),
                     !.arr = list,
                     !.result = Ok(CopyEntries(list[1]))]

\* AgcFile::list_sample
list_sample(fault, nulls) ==
    ListResult("agc_list_sample", agc_list_sample(fault, nulls))

\* AgcFile::list_ctg
list_ctg(sample, fault, nulls) ==
    LET sample_ptr == SamplePtr(sample)
    IN  [ListResult("agc_list_ctg", agc_list_ctg(sample_ptr, fault, nulls))
            EXCEPT !.sptr = sample_ptr]

----------------------------------------------------------------------------
(* State machine *)

Args == [path |-> <<>>, prefetch |-> FALSE, sample |-> <<>>, name |-> <<>>,
         start |-> 0, end |-> 0]

Call(op, h, args, out) == [op |-> op, h |-> h, args |-> args, out |-> out]

\* Texts a caller may pass (a &str is valid UTF-8 and may hold a 0 byte)
Texts == {<<65>>, <<67>>, <<65, 0>>, <<239, 191, 189>>}
Paths == {<<65>>, <<67>>, <<65, 0>>}
Options(T) == {<<>>} \cup {<<t>> : t \in T}
Positions == 0..MaxPos

\* The sets of entries of a foreign array that may come back NULL
NullSets == SUBSET (1..2)

Init ==
    /\ engine \in [inclusive : BOOLEAN, ret_ctg_len : BOOLEAN]
    /\ hstate = [h \in Handles |-> "unborn"]
    /\ closeCalls = [h \in Handles |-> 0]
    /\ borrows = [h \in Handles |-> 0]
    /\ outstanding = 0
    /\ leakedPaths = 0
    /\ leakedStrings = 0
    /\ last = Call("none", 0, Args, Out)

\* The bookkeeping every wrapper call shares: foreign arrays and strings
\* received and destroyed, path buffers given away
Account(out) ==
    /\ outstanding' = outstanding
          + (IF out.arr # <<>> /\ Count(out.calls, "agc_reference_sample") = 0
             THEN 1 ELSE 0)
          - Count(out.calls, "agc_list_destroy")
    /\ leakedStrings' = leakedStrings
          + (IF out.arr # <<>> /\ Count(out.calls, "agc_reference_sample") = 1
             THEN 1 ELSE 0)
          - Count(out.calls, "agc_string_destroy")
    /\ leakedPaths' = leakedPaths + out.raw

Open(HS) ==
    /\ leakedPaths < MaxOpens
    /\ \E filename \in Paths, prefetching \in BOOLEAN, fault \in BOOLEAN :
         LET out == open(filename, prefetching, fault)
             free == {h \in HS : hstate[h] = "unborn"}
             args == [Args EXCEPT !.path = filename, !.prefetch = prefetching]
         IN  /\ IF out.result.tag = "Ok"
                THEN /\ free # {}
                     /\ LET h == CHOOSE x \in free : \A y \in free : x <= y
                        IN  /\ hstate' = [hstate EXCEPT ![h] = "open"]
                            /\ last' = Call("open", h, args, out)
                ELSE /\ hstate' = hstate
                     /\ last' = Call("open", 0, args, out)
             /\ Account(out)
    /\ UNCHANGED <<engine, closeCalls, borrows>>

\* A close that does not wait for the shared borrows of the AgcFile to end
Drop_WhileBorrowed(HS) ==
    /\ \E h \in HS :
         /\ hstate[h] = "open"
         /\ hstate' = [hstate EXCEPT ![h] = "closed"]
         /\ closeCalls' = [closeCalls EXCEPT ![h] = @ + Count(drop, "agc_close")]
         /\ last' = Call("drop", h, Args, [Out EXCEPT !.calls = drop])
    /\ UNCHANGED <<engine, borrows, outstanding, leakedPaths, leakedStrings>>

\* Drop for AgcFile.  drop takes &mut self and runs when the owner lets the
\* value go, which the language allows only when no &self borrow is live
Drop(HS) ==
    /\ \E h \in HS :
         /\ hstate[h] = "open"
         /\ borrows[h] = 0
         /\ hstate' = [hstate EXCEPT ![h] = "closed"]
         /\ closeCalls' = [closeCalls EXCEPT ![h] = @ + Count(drop, "agc_close")]
         /\ last' = Call("drop", h, Args, [Out EXCEPT !.calls = drop])
    /\ UNCHANGED <<engine, borrows, outstanding, leakedPaths, leakedStrings>>

\* A query borrows a live AgcFile and leaves it alive
Borrow(h, op, args, out) ==
    /\ last' = Call(op, h, args, out)
    /\ Account(out)
    /\ UNCHANGED <<engine, hstate, closeCalls, borrows>>

\* A thread that shares the AgcFile (Sync) enters a query through &self:
\* the foreign call is in flight until QueryReturn
QueryEnter(HS) ==
    /\ \E h \in HS :
         /\ hstate[h] = "open"
         /\ borrows[h] < MaxThreads
         /\ borrows' = [borrows EXCEPT ![h] = @ + 1]
    /\ UNCHANGED <<engine, hstate, closeCalls, outstanding, leakedPaths,
                   leakedStrings, last>>

\* The foreign call of a query in flight (n_sample) returns and the thread
\* gives its borrow back
QueryReturn(HS) ==
    /\ \E h \in HS :
         /\ borrows[h] > 0
         /\ borrows' = [borrows EXCEPT ![h] = @ - 1]
         /\ last' = Call("n_sample", h, Args, n_sample)
         /\ Account(n_sample)
    /\ UNCHANGED <<engine, hstate, closeCalls>>

GetCtgLen(HS, T) ==
    \E h \in HS, sample \in Options(T), name \in T :
        /\ hstate[h] = "open"
        /\ Borrow(h, "get_ctg_len", [Args EXCEPT !.sample = sample, !.name = name],
                  get_ctg_len(sample, name))

GetCtgSeq(HS, T, P) ==
    \E h \in HS, sample \in Options(T), name \in T, start \in P, end \in P :
        /\ hstate[h] = "open"
        /\ \E out \in {get_ctg_seq(sample, name, start, end, c) : c \in BOOLEAN} :
              Borrow(h, "get_ctg_seq",
                     [Args EXCEPT !.sample = sample, !.name = name,
                                  !.start = start, !.end = end], out)

NSample(HS) ==
    \E h \in HS :
        /\ hstate[h] = "open"
        /\ Borrow(h, "n_sample", Args, n_sample)

NCtg(HS, T) ==
    \E h \in HS, sample \in T, missing \in MissingCounts :
        /\ hstate[h] = "open"
        /\ Borrow(h, "n_ctg", [Args EXCEPT !.sample = <<sample>>],
                  n_ctg(sample, missing))

ReferenceSample(HS) ==
    /\ leakedStrings < MaxRefCalls
    /\ \E h \in HS, fault \in BOOLEAN :
         /\ hstate[h] = "open"
         /\ Borrow(h, "reference_sample", Args, reference_sample(fault))

ListSample(HS) ==
    \E h \in HS, fault \in BOOLEAN, nulls \in NullSets :
        /\ hstate[h] = "open"
        /\ Borrow(h, "list_sample", Args, list_sample(fault, nulls))

ListCtg(HS, T) ==
    \E h \in HS, sample \in Options(T), fault \in BOOLEAN, nulls \in NullSets :
        /\ hstate[h] = "open"
        /\ Borrow(h, "list_ctg", [Args EXCEPT !.sample = sample],
                  list_ctg(sample, fault, nulls))

\* One AgcFile, every text argument, short ranges
Next ==
    \/ Open({1})
    \/ Drop({1})
    \/ GetCtgLen({1}, Texts)
    \/ GetCtgSeq({1}, Texts, {0, 1})
    \/ NSample({1})
    \/ NCtg({1}, Texts)
    \/ ReferenceSample({1})
    \/ ListSample({1})
    \/ ListCtg({1}, Texts)

Spec == Init /\ [][Next]_vars

\* One AgcFile, range extraction over every range
NextRange ==
    \/ Open({1})
    \/ Drop({1})
    \/ GetCtgSeq({1}, Texts, Positions)

SpecRange == Init /\ [][NextRange]_vars

\* Several AgcFile values alive at once, fewer arguments
SomeTexts == {<<65>>, <<67>>}

NextHandles ==
    \/ Open(Handles)
    \/ Drop(Handles)
    \/ GetCtgLen(Handles, SomeTexts)
    \/ GetCtgSeq(Handles, SomeTexts, {0, 1})
    \/ NSample(Handles)
    \/ NCtg(Handles, SomeTexts)
    \/ ReferenceSample(Handles)
    \/ ListSample(Handles)
    \/ ListCtg(Handles, SomeTexts)

SpecHandles == Init /\ [][NextHandles]_vars

\* Ranges at the limits of i32
Limits == {-1, 0, 1, I32Max}

NextLimits ==
    \/ Open({1})
    \/ Drop({1})
    \/ GetCtgSeq({1}, SomeTexts, Limits)

SpecLimits == Init /\ [][NextLimits]_vars

\* One AgcFile shared by several threads, queries in flight
NextThreads ==
    \/ Open(Handles)
    \/ Drop(Handles)
    \/ QueryEnter(Handles)
    \/ QueryReturn(Handles)
    \/ GetCtgLen(Handles, SomeTexts)

SpecThreads == Init /\ [][NextThreads]_vars

----------------------------------------------------------------------------
(* Properties *)

Called(f) == Count(last.out.calls, f) > 0
IsList == last.op \in {"list_sample", "list_ctg"}

\* C1: whenever agc_open returns NULL, open returns Err, no AgcFile comes
\* into being and no agc_close is issued for it, whatever the prefetch flag.
C1_OpenNullIsErr ==
    [][(last'.op = "open" /\ Count(last'.out.calls, "agc_open") = 1
            /\ last'.out.fret = 0)
        => /\ last'.out.result.tag = "Err"
           /\ last'.h = 0
           /\ hstate' = hstate
           /\ closeCalls' = closeCalls
           /\ Count(last'.out.calls, "agc_close") = 0]_vars

C1_Witness ==
    /\ last.op = "open"
    /\ last.args.path = <<67>>
    /\ last.args.prefetch
    /\ last.out.calls = <<"agc_open">>
    /\ last.out.fret = 0
    /\ last.out.result.tag = "Err"

\* C2: every handle a successful open produced is closed exactly once:
\* not at all while its owner is alive, once when the owner is dropped,
\* never twice; and a query is only ever issued on a handle not yet closed.
C2_CloseExactlyOnce ==
    /\ \A h \in Handles :
          /\ hstate[h] \in {"unborn", "open"} => closeCalls[h] = 0
          /\ hstate[h] = "closed" => closeCalls[h] = 1
    /\ last.op \notin {"none", "open", "drop"}
          => hstate[last.h] = "open" /\ closeCalls[last.h] = 0
    /\ last.op = "drop" => last.out.calls = <<"agc_close">>

C2_Witness ==
    /\ hstate[1] = "closed"
    /\ closeCalls[1] = 1
    /\ hstate[2] = "open"
    /\ last.op = "get_ctg_len"
    /\ last.h = 2
    /\ last.out.result.tag = "Err"

\* C3: a required text argument with an embedded 0 byte (the path of open,
\* the name of get_ctg_len and get_ctg_seq, the sample of n_ctg) makes the
\* operation return Err without calling any foreign function.
C3_RequiredTextHasNul ==
    \/ last.op = "open" /\ HasNul(last.args.path)
    \/ last.op \in {"get_ctg_len", "get_ctg_seq"} /\ HasNul(last.args.name)
    \/ last.op = "n_ctg" /\ HasNul(last.args.sample[1])

C3_NulRejectedBeforeForeignCall ==
    C3_RequiredTextHasNul
        => /\ last.out.result.tag = "Err"
           /\ last.out.calls = <<>>
           /\ last.op = "open" => last.h = 0

C3_Witness ==
    /\ last.op = "get_ctg_seq"
    /\ last.args.name = <<65, 0>>
    /\ last.args.sample = << <<65>> >>
    /\ last.out.result.tag = "Err"
    /\ last.out.calls = <<>>

\* C4: list_sample and list_ctg pass every non-null array the enumeration
\* call returned to agc_list_destroy exactly once, after the call and before
\* returning; on a NULL array they return Err and do not call the
\* destructor; no foreign array is ever outstanding between operations.
C4_ArrayDestroyedOnce ==
    /\ outstanding = 0
    /\ IsList =>
          IF last.out.arr = <<>>
          THEN /\ last.out.result.tag = "Err"
               /\ Count(last.out.calls, "agc_list_destroy") = 0
          ELSE /\ Len(last.out.calls) = 2
               /\ last.out.calls[1] \in {"agc_list_sample", "agc_list_ctg"}
               /\ last.out.calls[2] = "agc_list_destroy"
    /\ ~IsList => Count(last.out.calls, "agc_list_destroy") = 0

C4_Witness ==
    /\ last.op = "list_ctg"
    /\ last.out.arr # <<>>
    /\ \E i \in 1..Len(last.out.arr[1]) : last.out.arr[1][i] = <<>>
    /\ Count(last.out.calls, "agc_list_destroy") = 1
    /\ outstanding = 0

\* The non-null entries of the foreign array of the last enumeration, and
\* the position an entry takes among them
NonNull == {i \in 1..Len(last.out.arr[1]) : last.out.arr[1][i] # <<>>}
Rank(i) == Cardinality({j \in NonNull : j <= i})

\* C5 as stated: a successful list_sample or list_ctg returns exactly the
\* non-null entries of the foreign array, in the array's order.
C5_Original ==
    (IsList /\ last.out.result.tag = "Ok")
        => /\ Len(last.out.result.val) = Cardinality(NonNull)
           /\ \A i \in NonNull : last.out.result.val[Rank(i)] = last.out.arr[1][i][1]

\* C5, amended: a successful list_sample or list_ctg returns one text per
\* non-null entry of the foreign array, in the array's order, each the
\* entry's bytes with every byte that is not valid UTF-8 replaced by U+FFFD
\* (so the entry itself when it is valid UTF-8); NULL entries are skipped.
C5_EntriesInOrderLossy ==
    (IsList /\ last.out.result.tag = "Ok")
        => /\ Len(last.out.result.val) = Cardinality(NonNull)
           /\ \A i \in NonNull :
                 /\ last.out.result.val[Rank(i)] = ToStringLossy(last.out.arr[1][i][1])
                 /\ IsUtf8(last.out.arr[1][i][1])
                       => last.out.result.val[Rank(i)] = last.out.arr[1][i][1]

C5_Witness ==
    /\ last.op = "list_sample"
    /\ last.out.result.tag = "Ok"
    /\ last.out.arr = << << << <<65>> >>, << <<255>> >> >> >>
    /\ last.out.result.val = << <<65>>, <<239, 191, 189>> >>

\* The samples list_sample returns
ListedSamples == {ToStringLossy(ArchiveSamples[i]) : i \in 1..Len(ArchiveSamples)}

\* The number of NULL entries in the foreign array of the last enumeration
Skipped == Len(last.out.arr[1]) - Cardinality(NonNull)

\* C6 as stated: a successful list_sample is as long as n_sample says, and
\* a successful list_ctg of a listed sample is as long as n_ctg says.
C6_Original ==
    /\ (last.op = "list_sample" /\ last.out.result.tag = "Ok")
          => Len(last.out.result.val) = n_sample.result.val
    /\ (last.op = "list_ctg" /\ last.out.result.tag = "Ok"
            /\ last.args.sample # <<>> /\ last.args.sample[1] \in ListedSamples)
          => /\ n_ctg(last.args.sample[1], 0).result.tag = "Ok"
             /\ Len(last.out.result.val) = n_ctg(last.args.sample[1], 0).result.val

\* C6, amended: a successful list_sample is as long as n_sample says less
\* the NULL entries it skipped in the foreign array, and a successful
\* list_ctg of a listed sample is as long as n_ctg says less the NULL
\* entries it skipped; the lengths agree when no entry is NULL.
C6_CountsLessSkipped ==
    /\ (last.op = "list_sample" /\ last.out.result.tag = "Ok")
          => Len(last.out.result.val) = n_sample.result.val - Skipped
    /\ (last.op = "list_ctg" /\ last.out.result.tag = "Ok"
            /\ last.args.sample # <<>> /\ last.args.sample[1] \in ListedSamples)
          => /\ n_ctg(last.args.sample[1], 0).result.tag = "Ok"
             /\ Len(last.out.result.val)
                   = n_ctg(last.args.sample[1], 0).result.val - Skipped

C6_Witness ==
    /\ last.op = "list_ctg"
    /\ last.args.sample = << <<65>> >>
    /\ last.out.result.tag = "Ok"
    /\ Skipped = 1
    /\ Len(last.out.result.val) = 1
    /\ n_ctg(<<65>>, 0).result.val = 2

\* C7: get_ctg_len returns Err whenever agc_get_ctg_len returns a negative
\* value and Ok of exactly the foreign value otherwise, so never Ok of a
\* negative length.
C7_LenSignDecides ==
    (last.op = "get_ctg_len" /\ Called("agc_get_ctg_len"))
        => /\ last.out.fret < 0 => last.out.result.tag = "Err"
           /\ last.out.fret >= 0 => last.out.result = Ok(last.out.fret)
           /\ last.out.result.tag = "Ok" => last.out.result.val >= 0

C7_Witness ==
    /\ last.op = "get_ctg_len"
    /\ last.args.name = <<239, 191, 189>>
    /\ last.out.calls = <<"agc_get_ctg_len">>
    /\ last.out.fret < 0
    /\ last.out.result.tag = "Err"

\* C8: get_ctg_seq returns Err, with no sequence text at all, whenever
\* agc_get_ctg_seq returns a negative value.
C8_SeqNegativeIsErr ==
    (last.op = "get_ctg_seq" /\ Called("agc_get_ctg_seq") /\ last.out.fret < 0)
        => /\ last.out.result.tag = "Err"
           /\ last.out.result.val = <<>>

C8_Witness ==
    /\ last.op = "get_ctg_seq"
    /\ last.args.sample = <<>>
    /\ last.args.name = <<239, 191, 189>>
    /\ last.args.start = 0
    /\ last.args.end = 1
    /\ last.out.calls = <<"agc_get_ctg_seq">>
    /\ last.out.fret < 0
    /\ last.out.result.tag = "Err"

\* The last call was a successful get_ctg_seq over a range inside the contig
SeqOkInRange ==
    /\ last.op = "get_ctg_seq"
    /\ last.out.result.tag = "Ok"
    /\ 0 <= last.args.start
    /\ last.args.start <= last.args.end
    /\ last.args.end <= agc_get_ctg_len(last.out.sptr, last.args.name)

C10_Original ==
    (last.op = "get_ctg_seq" /\ Called("agc_get_ctg_seq") /\ last.out.fret >= 0)
        => /\ last.out.fret - 1 <= last.out.buf_top
           /\ last.out.result.tag # "Panic"
           /\ last.out.result.tag = "Ok"
                 => /\ Len(last.out.result.val) = last.out.fret
                    /\ last.out.result.val = last.out.written

\* C12 as stated: get_ctg_seq called with end < start (end - start = -1
\* included) returns Err, never panics and never sizes a buffer from a
\* wrapped-around length, and the AgcFile stays usable.
C12_Original ==
    (last.op = "get_ctg_seq" /\ ~HasNul(last.args.name)
        /\ last.args.end < last.args.start)
        => /\ last.out.result.tag = "Err"
           /\ hstate[last.h] = "open"

\* C13 as stated: every non-null string agc_reference_sample returned is
\* passed to agc_string_destroy exactly once before reference_sample
\* returns, so no reference string is ever left unreleased.
C13_Original ==
    /\ leakedStrings = 0
    /\ (last.op = "reference_sample" /\ last.out.arr # <<>>)
          => Count(last.out.calls, "agc_string_destroy") = 1

\* The optional sample of the last call was Some(text with a 0 byte)
OptionalSampleHasNul ==
    /\ last.op \in {"get_ctg_len", "get_ctg_seq", "list_ctg"}
    /\ last.args.sample # <<>>
    /\ HasNul(last.args.sample[1])

\* C15 as stated: Some(text) with an embedded 0 byte as the optional sample
\* of get_ctg_len, get_ctg_seq or list_ctg is rejected with Err before any
\* foreign call; a NULL sample reaches the engine only for None.
C15_Original ==
    /\ OptionalSampleHasNul
          => /\ last.out.result.tag = "Err"
             /\ last.out.calls = <<>>
    /\ (last.op \in {"get_ctg_len", "get_ctg_seq", "list_ctg"}
            /\ last.out.calls # <<>> /\ last.out.sptr = <<>>)
          => last.args.sample = <<>>

\* C18 as stated: every path buffer open allocates for agc_open is
\* reclaimed after the call, whether agc_open returned a handle or NULL, so
\* no path buffer is ever left unreleased.
C18_Original ==
    /\ leakedPaths = 0
    /\ last.op = "open" => last.out.raw = 0

\* C14 as stated: n_sample returns a value >= 0 and n_ctg never returns Ok
\* of a negative value: a negative return of agc_n_sample or agc_n_ctg is
\* never handed to the caller as data.
C14_Original ==
    /\ last.op = "n_sample" => last.out.result.val >= 0
    /\ (last.op = "n_ctg" /\ last.out.result.tag = "Ok")
          => last.out.result.val >= 0
    /\ (last.op \in {"n_sample", "n_ctg"} /\ last.out.calls # <<>>
            /\ last.out.fret < 0)
          => last.out.result.tag = "Err"

\* C16 as stated: for every get_ctg_seq call with i32 start and end and
\* end >= start (start negative and end near the i32 maximum included),
\* the buffer handed to agc_get_ctg_seq holds exactly end - start + 1
\* bytes, a size computed without overflow or wrap-around.
C16_Original ==
    (last.op = "get_ctg_seq" /\ ~HasNul(last.args.name)
        /\ last.args.end >= last.args.start)
        => /\ Called("agc_get_ctg_seq")
           /\ last.out.buf_top + last.args.start = last.args.end

\* The operations that use a handle through &self
QueryOps ==
    {"get_ctg_len", "get_ctg_seq", "n_sample", "n_ctg", "reference_sample",
     "list_sample", "list_ctg"}

\* C17: with one AgcFile shared by several threads, agc_close has run on a
\* handle only when no query on it is in flight, and no query is in flight
\* or has completed on a handle after agc_close began.
C17_NoQueryAcrossClose ==
    /\ \A h \in Handles :
          borrows[h] > 0 => (hstate[h] = "open" /\ closeCalls[h] = 0)
    /\ last.op \in QueryOps
          => (hstate[last.h] = "open" /\ closeCalls[last.h] = 0)

C17_Witness ==
    /\ borrows[1] = MaxThreads
    /\ hstate[2] = "closed"
    /\ closeCalls[2] = 1
    /\ last.op = "n_sample"
    /\ last.h = 1

====
